---- MODULE Spec2Model ----
(***************************************************************************)
(* fetch_feeds.py: fetch the configured RSS feeds, download the entries'   *)
(* images, rank the articles by date and write docs/mma-news.json.         *)
(*                                                                         *)
(* Representation of the data the script handles:                          *)
(*   date string  [fmt, t, off]: the text format, the wall-clock reading   *)
(*                written in it and the zone offset written in it;         *)
(*   datetime     [aware, t, off]: tzinfo present or not, the wall-clock   *)
(*                fields, the utcoffset (0 for a naive value);             *)
(*   URL          [file]: the last path segment of the URL;                *)
(*   None / a missing key: the record None.                                *)
(***************************************************************************)
EXTENDS Integers, Sequences, FiniteSets, TLC

VARIABLES
    pc,            \* position of the script: start, source, entry, save, write, done, crashed
    world,         \* what feedparser.parse returns (or raises) for each configured feed
    fs,            \* the file system under the working directory
    clock,         \* the last reading of datetime.now(timezone.utc)
    i,             \* index of the feed_config the outer loop is at
    entries,       \* feed.entries[:10] of the source being processed
    j,             \* index of the entry the inner loop is at
    count,         \* the per-source counter
    all_articles,  \* fetch_feeds' accumulator
    articles,      \* save_articles' local list
    output,        \* the document last written to docs/mma-news.json, None if none
    log,           \* the warning and error lines printed
    batch,         \* ranking harness: the list handed to the sort-and-cap step
    ranked,        \* ranking harness: the result of each application
    keysSeen,      \* ranking harness: the sort keys parse_date returned
    rpc,           \* ranking harness: number of applications done
    entry,         \* thumbnail harness: the feed entry
    thumb          \* thumbnail harness: what extract_thumbnail returned

vars == <<pc, world, fs, clock, i, entries, j, count, all_articles, articles,
          output, log, batch, ranked, keysSeen, rpc, entry, thumb>>

pipeVars == <<pc, world, fs, i, entries, j, count, all_articles, articles, output, log>>
rankVars == <<batch, ranked, keysSeen, rpc>>
thumbVars == <<entry, thumb>>

None == [none |-> TRUE]
\* a harness result not computed yet
Unset == [unset |-> TRUE]

\* ------------------------------------------------------------------ bounds

\* largest wall-clock reading written in a date string
MaxT == 2
\* the clock is read at most up to this value
MaxClock == 2
\* longest list handed to the ranking harness
MaxLen == 4
\* a long feed has EntryCap + MaxOver entries
MaxOver == 1
\* longest feed of entries with images
MaxShort == 2

\* ------------------------------------------------------- program constants

RSS_FEEDS == <<"MMA Junkie", "Lowkick MMA", "BJPENN", "Sherdog">>
EntryCap == 10
MaxArticles == 30

\* --------------------------------------------------------------- parse_date

Date(f, t, o) == [fmt |-> f, t |-> t, off |-> o]
DateTime(a, t, o) == [aware |-> a, t |-> t, off |-> o]

\* datetime.now(timezone.utc) when the clock reads `now`
NowUtc(now) == DateTime(TRUE, now, 0)

\* line 30: fromisoformat succeeds on an ISO-8601 text ('T' separator); 'Z' is
\* replaced by +00:00, a written offset is kept as tzinfo, none gives a naive value
FromIso(d) ==
    CASE d.fmt = "isoZ"   -> DateTime(TRUE, d.t, 0)
      [] d.fmt = "isoOff" -> DateTime(TRUE, d.t, d.off)
      [] d.fmt = "iso"    -> DateTime(FALSE, d.t, 0)
      [] OTHER            -> None

\* lines 35-36: the trailing numeric zone is stripped, strptime gives a naive value;
\* a zone name (GMT) is not stripped and strptime raises
FromRfc822(d) ==
    IF d.fmt = "rfc822" THEN DateTime(FALSE, d.t, 0) ELSE None

\* line 41: the first 19 characters as 'YYYY-MM-DD HH:MM:SS', naive
FromYmd(d) ==
    IF d.fmt = "ymd" THEN DateTime(FALSE, d.t, 0) ELSE None

parse_date(d, now) ==
    IF d.fmt = "empty" THEN NowUtc(now)
    ELSE IF FromIso(d) # None THEN FromIso(d)
    ELSE IF FromRfc822(d) # None THEN FromRfc822(d)
    ELSE IF FromYmd(d) # None THEN FromYmd(d)
    ELSE NowUtc(now)

\* whether parse_date reads the clock for d
ReadsClock(d) == d.fmt \in {"empty", "rfc822GMT", "garbage"}

\* datetime.__lt__: TypeError between a naive and an aware value; aware values
\* compare by instant, naive values by their fields
Cmp(a, b) ==
    IF a.aware # b.aware THEN "err"
    ELSE IF a.t - a.off < b.t - b.off THEN "lt" ELSE "ge"

\* ---------------------------------------------------------------- list.sort

Reverse(s) == [k \in 1..Len(s) |-> s[Len(s) + 1 - k]]

\* count_run's scan from position lo: the length of the run, -1 if a comparison raises
RECURSIVE RunScan(_, _, _, _)
RunScan(keys, p, lo, descending) ==
    IF lo > Len(p) THEN Len(p)
    ELSE LET c == Cmp(keys[p[lo]], keys[p[lo - 1]]) IN
         IF c = "err" THEN -1
         ELSE IF (c = "lt") = descending THEN RunScan(keys, p, lo + 1, descending)
         ELSE lo - 1

\* count_run: [n, descending]; n = -1 if a comparison raises
CountRun(keys, p) ==
    LET c == Cmp(keys[p[2]], keys[p[1]]) IN
    IF c = "err" THEN [n |-> -1, descending |-> FALSE]
    ELSE [n |-> RunScan(keys, p, 3, c = "lt"), descending |-> c = "lt"]

\* binarysort's search for the pivot's place in p[1..r] (0-based l, r as in C):
\* the 0-based insertion index, -1 if a comparison raises
RECURSIVE BinSearch(_, _, _, _, _)
BinSearch(keys, p, pivot, l, r) ==
    IF l >= r THEN l
    ELSE LET m == l + ((r - l) \div 2)
             c == Cmp(keys[pivot], keys[p[m + 1]])
         IN  IF c = "err" THEN -1
             ELSE IF c = "lt" THEN BinSearch(keys, p, pivot, l, m)
             ELSE BinSearch(keys, p, pivot, m + 1, r)

\* p with the element at 0-based index start moved to 0-based index l
InsertAt(p, start, l) ==
    [k \in 1..Len(p) |->
        IF k - 1 < l THEN p[k]
        ELSE IF k - 1 = l THEN p[start + 1]
        ELSE IF k - 1 <= start THEN p[k - 1]
        ELSE p[k]]

\* binarysort from 0-based index start: [ok, p]; on a raise p is as far as it got
RECURSIVE BinarySort(_, _, _)
BinarySort(keys, p, start) ==
    IF start >= Len(p) THEN [ok |-> TRUE, p |-> p]
    ELSE LET l == BinSearch(keys, p, p[start + 1], 0, start) IN
         IF l = -1 THEN [ok |-> FALSE, p |-> p]
         ELSE BinarySort(keys, InsertAt(p, start, l), start + 1)

\* p with its first n elements reversed
ReversePrefix(p, n) ==
    [k \in 1..Len(p) |-> IF k <= n THEN p[n + 1 - k] ELSE p[k]]

\* list.sort(key=..., reverse=True) on a list of fewer than 64 elements, as a
\* permutation of the positions 1..Len(keys): the list is reversed, one run is
\* counted and extended by binary insertion to the whole list, and the list is
\* reversed back, also when a comparison raised. [ok, p]
ListSortReverse(keys) ==
    LET n  == Len(keys)
        p0 == [k \in 1..n |-> n + 1 - k]
    IN  IF n < 2 THEN [ok |-> TRUE, p |-> [k \in 1..n |-> k]]
        ELSE LET run == CountRun(keys, p0) IN
             IF run.n = -1 THEN [ok |-> FALSE, p |-> Reverse(p0)]
             ELSE LET p1 == IF run.descending THEN ReversePrefix(p0, run.n) ELSE p0
                      bs == BinarySort(keys, p1, run.n)
                  IN  [ok |-> bs.ok, p |-> Reverse(bs.p)]

\* the readings of the clock by the key function: position k of ds reads the
\* clock after it advanced by tick[k] (only positions whose parse reads it)
RECURSIVE Reading(_, _, _, _)
Reading(ds, tick, now, k) ==
    IF k = 0 THEN now
    ELSE Reading(ds, tick, now, k - 1) + (IF ReadsClock(ds[k]) THEN tick[k] ELSE 0)

\* the ways the clock can advance while the keys of ds are computed
Ticks(ds, now) ==
    {tick \in [{k \in 1..Len(ds) : ReadsClock(ds[k])} -> {0, 1}] :
        Reading(ds, tick, now, Len(ds)) <= MaxClock}

\* line 167, the key of every element, in list order
SortKeys(arts, tick, now) ==
    LET ds == [k \in 1..Len(arts) |-> arts[k].pubDate] IN
    [k \in 1..Len(arts) |-> parse_date(ds[k], Reading(ds, tick, now, k))]

Take(s, n) == IF Len(s) <= n THEN s ELSE SubSeq(s, 1, n)

\* SortAndCap without the slice of line 171
SortWithoutCap(arts, tick, now) ==
    LET keys == SortKeys(arts, tick, now)
        res  == ListSortReverse(keys)
    IN  [ok   |-> res.ok,
         keys |-> keys,
         arts |-> [k \in 1..Len(arts) |-> arts[res.p[k]]]]

\* lines 166-171: the sort inside try/except, then the cap. [ok, keys, arts]
SortAndCap(arts, tick, now) ==
    LET keys == SortKeys(arts, tick, now)
        res  == ListSortReverse(keys)
    IN  [ok   |-> res.ok,
         keys |-> keys,
         arts |-> Take([k \in 1..Len(arts) |-> arts[res.p[k]]], MaxArticles)]

\* -------------------------------------------------------- extract_thumbnail

Url(file) == [file |-> file]
Raise == [raise |-> TRUE]

\* index of the first TRUE of a sequence of booleans, 0 if none
FirstIdx(hits) ==
    IF \E k \in 1..Len(hits) : hits[k]
    THEN CHOOSE k \in 1..Len(hits) : hits[k] /\ \A m \in 1..(k - 1) : ~hits[m]
    ELSE 0

\* str.startswith('image') on a link's type ('' when the key is missing)
StartsWithImage(type) == type \in {"image/jpeg", "image/png"}

HasUrl(item) == item.url # None
IsImageContent(item) == item.medium = "image" /\ item.url # None
IsImageLink(item) == StartsWithImage(item.type)

\* lines 80-100; Raise when re.search is handed a summary that is not a string
extract_thumbnail(e) ==
    LET t == FirstIdx([k \in 1..Len(e.media_thumbnail) |-> HasUrl(e.media_thumbnail[k])])
        c == FirstIdx([k \in 1..Len(e.media_content) |-> IsImageContent(e.media_content[k])])
        l == FirstIdx([k \in 1..Len(e.links) |-> IsImageLink(e.links[k])])
    IN  IF t # 0 THEN e.media_thumbnail[t].url
        ELSE IF c # 0 THEN e.media_content[c].url
        ELSE IF l # 0 THEN e.links[l].href
        ELSE IF e.summary.kind = "nonstring" THEN Raise
        ELSE IF e.summary.kind = "text" /\ e.summary.img # None THEN e.summary.img
        ELSE None

\* ----------------------------------------------------------- download_image

\* lines 58-60: the last path segment, or image_<hash>.jpg when it has no dot
Filename(url) ==
    IF url.file \in {"a.jpg", "b.png"}
    THEN [name |-> url.file, hashed |-> FALSE]
    ELSE [name |-> url.file, hashed |-> TRUE]

LocalPath(name) == [dir |-> "./images/", file |-> name]

\* lines 47-76 on file system f with the HTTP outcome resp ("200", "404", "exc"):
\* [ret, fs]. Every exception is caught and gives None.
download_image(url, f, resp) ==
    IF url = None THEN [ret |-> None, fs |-> f]
    ELSE IF f.docs # "dir" THEN [ret |-> None, fs |-> f]
    ELSE IF f.images = "absent" /\ f.ro THEN [ret |-> None, fs |-> f]
    ELSE LET f1   == [f EXCEPT !.images = "dir"]
             name == Filename(url)
         IN  IF name \in f1.files THEN [ret |-> LocalPath(name), fs |-> f1]
             ELSE IF resp = "exc" THEN [ret |-> None, fs |-> f1]
             ELSE IF resp = "200"
                  THEN IF f1.ro THEN [ret |-> None, fs |-> f1]
                       ELSE [ret |-> LocalPath(name),
                             fs  |-> [f1 EXCEPT !.files = @ \cup {name}]]
             ELSE [ret |-> LocalPath(name), fs |-> f1]

\* ---------------------------------------------------------- clean_description

\* lines 102-114: "" for an empty text, the text without its tags otherwise;
\* Raise when re.sub is handed a value that is not a string
clean_description(summary) ==
    CASE summary.kind = "absent"    -> [text |-> ""]
      [] summary.kind = "nonstring" -> Raise
      [] OTHER                      -> [text |-> summary.text]

\* ------------------------------------------------------------ the feed entry

\* entry.get(key, default)
Get(value, default) == IF value = None THEN default ELSE value

\* datetime.now(timezone.utc).isoformat(): an ISO-8601 text ending in +00:00
IsoFormat(now) == Date("isoOff", now, 0)

\* lines 134-147, the body of the inner try for entry e of the feed called name,
\* with the clock reading now: [raised, fs, article]
ProcessEntryBody(e, name, f, resp, now) ==
    LET pub_date  == IF e.published # None THEN e.published
                     ELSE IF e.updated # None THEN e.updated
                     ELSE IsoFormat(now)
        image_url == extract_thumbnail(e)
        dl        == IF image_url = Raise THEN [ret |-> None, fs |-> f]
                     ELSE download_image(image_url, f, resp)
        desc      == clean_description(e.summary)
    IN  IF image_url = Raise THEN [raised |-> TRUE, fs |-> f, article |-> None]
        ELSE IF desc = Raise THEN [raised |-> TRUE, fs |-> dl.fs, article |-> None]
        ELSE [raised  |-> FALSE,
              fs      |-> dl.fs,
              article |-> [title       |-> Get(e.title, [text |-> "No title", n |-> 0]),
                           link        |-> Get(e.link, [text |-> "#", n |-> 0]),
                           description |-> desc,
                           pubDate     |-> pub_date,
                           source      |-> name,
                           thumbnail   |-> dl.ret]]

\* whether the entry's date falls back to the clock (line 134)
Undated(e) == e.published = None /\ e.updated = None

\* whether processing e issues an HTTP request
Requests(e, f) ==
    LET u == extract_thumbnail(e) IN
    /\ u # Raise /\ u # None
    /\ f.docs = "dir" /\ ~(f.images = "absent" /\ f.ro)
    /\ Filename(u) \notin f.files

\* EntrySlice without the slice of line 132
EntrySliceAll(feedEntries) == feedEntries

\* line 132
EntrySlice(feedEntries) == Take(feedEntries, EntryCap)

\* ------------------------------------------------------------------ inputs

Text(str, n) == [text |-> str, n |-> n]

\* an entry with a title, a link, a plain summary and an ISO date, and no image
PlainEntry(n) ==
    [title |-> Text("title", n), link |-> Text("link", n),
     summary |-> [kind |-> "text", text |-> "words", img |-> None],
     published |-> Date("isoZ", 1 + (n % MaxT), 0), updated |-> None,
     media_thumbnail |-> <<>>, media_content |-> <<>>, links |-> <<>>]

\* an entry whose summary is not a string
BrokenEntry(n) ==
    [PlainEntry(n) EXCEPT !.summary = [kind |-> "nonstring", text |-> "", img |-> None]]

UrlA == Url("a.jpg")
UrlB == Url("b.png")
UrlPic == Url("pic")

\* entries carrying image signals and the other date formats
ImageEntries ==
    { [PlainEntry(1) EXCEPT !.media_thumbnail = <<[url |-> None], [url |-> UrlA]>>,
                            !.published = Date("rfc822", 1, 1)],
      [PlainEntry(2) EXCEPT !.media_content = <<[medium |-> "video", url |-> UrlA],
                                                [medium |-> "image", url |-> UrlPic]>>,
                            !.published = None,
                            !.updated = Date("ymd", MaxT, 0),
                            !.title = None],
      [PlainEntry(3) EXCEPT !.links = <<[type |-> "text/html", href |-> UrlB],
                                        [type |-> "image/jpeg", href |-> UrlA]>>,
                            !.published = None,
                            !.link = None],
      [PlainEntry(4) EXCEPT !.media_thumbnail = <<[url |-> UrlB]>>,
                            !.summary = [kind |-> "nonstring", text |-> "", img |-> None]],
      [PlainEntry(5) EXCEPT !.summary = [kind |-> "text", text |-> "words", img |-> UrlA],
                            !.published = Date("rfc822GMT", 1, 0)],
      [PlainEntry(6) EXCEPT !.summary = [kind |-> "absent", text |-> "", img |-> None]] }

Feed(es, bozo) == [raises |-> FALSE, bozo |-> bozo, entries |-> es]
FeedError == [raises |-> TRUE, bozo |-> FALSE, entries |-> <<>>]

LongLen == EntryCap + MaxOver

\* feeds for the runs with many articles: none, one, or more than EntryCap
\* entries, all of them sound or every third one broken
BulkFeeds ==
    { FeedError,
      Feed(<<>>, FALSE),
      Feed(<<PlainEntry(1)>>, TRUE),
      Feed([n \in 1..LongLen |-> PlainEntry(n)], FALSE),
      Feed([n \in 1..LongLen |-> IF n % 3 = 2 THEN BrokenEntry(n) ELSE PlainEntry(n)], TRUE) }

\* a run with images: the first source serves the short feed es, the second
\* fails and the others are empty
ImageWorld(es) ==
    [s \in 1..Len(RSS_FEEDS) |->
        IF s = 1 THEN Feed(es, FALSE) ELSE IF s = 2 THEN FeedError ELSE Feed(<<>>, FALSE)]

BulkWorlds == [1..Len(RSS_FEEDS) -> BulkFeeds]

\* the working directory before the run: docs missing, a regular file, or a
\* directory with or without images/ and a.jpg; ro: nothing can be created
FileSystems ==
    {[docs |-> d, images |-> "absent", files |-> {}, ro |-> r] :
        d \in {"absent", "file", "dir"}, r \in BOOLEAN}
    \cup
    {[docs |-> "dir", images |-> "dir", files |-> fl, ro |-> r] :
        fl \in {{}, {Filename(UrlA)}}, r \in BOOLEAN}

\* ------------------------------------------------------------- fetch_feeds

\* lines 191-192, 118
Start ==
    /\ pc = "start"
    /\ pc' = "source"
    /\ i' = 1
    /\ all_articles' = <<>>
    /\ UNCHANGED <<world, fs, clock, entries, j, count, articles, output, log,
                   rankVars, thumbVars>>

\* SourceFailed leaving the loop (break) instead of going on (continue)
SourceFailedBreak ==
    /\ pc' = "source"
    /\ i' = Len(RSS_FEEDS) + 1
    /\ log' = Append(log, "Error fetching")
    /\ UNCHANGED <<entries, j, count>>

\* lines 154-156: the handler of an error of a whole source
SourceFailed ==
    /\ pc' = "source"
    /\ i' = i + 1
    /\ log' = Append(log, "Error fetching")
    /\ UNCHANGED <<entries, j, count>>

\* lines 126-132: the feed is parsed and its first entries taken
SourceParsed ==
    /\ pc' = "entry"
    /\ entries' = EntrySlice(world[i].entries)
    /\ j' = 1
    /\ count' = 0
    /\ log' = IF world[i].bozo THEN Append(log, "Warning") ELSE log
    /\ UNCHANGED i

\* lines 120-132, one turn of the loop over RSS_FEEDS up to the entry loop
FetchSource ==
    /\ pc = "source"
    /\ i <= Len(RSS_FEEDS)
    /\ IF world[i].raises THEN SourceFailed ELSE SourceParsed
    /\ UNCHANGED <<world, fs, clock, all_articles, articles, output,
                   rankVars, thumbVars>>

\* lines 133-150, one turn of the loop over the entries
ProcessEntry ==
    /\ pc = "entry"
    /\ j <= Len(entries)
    /\ \E resp \in (IF Requests(entries[j], fs) THEN {"200", "404", "exc"} ELSE {"exc"}),
          tick \in (IF Undated(entries[j]) /\ clock < MaxClock THEN {0, 1} ELSE {0}) :
          LET r == ProcessEntryBody(entries[j], RSS_FEEDS[i], fs, resp, clock + tick) IN
          /\ fs' = r.fs
          /\ clock' = clock + tick
          /\ all_articles' = IF r.raised THEN all_articles
                             ELSE Append(all_articles, r.article)
          /\ count' = IF r.raised THEN count ELSE count + 1
          /\ log' = IF r.raised THEN Append(log, "Error processing entry") ELSE log
    /\ j' = j + 1
    /\ UNCHANGED <<pc, world, i, entries, articles, output, rankVars, thumbVars>>

\* line 152, the end of the entry loop
EndSource ==
    /\ pc = "entry"
    /\ j > Len(entries)
    /\ pc' = "source"
    /\ i' = i + 1
    /\ UNCHANGED <<world, fs, clock, entries, j, count, all_articles, articles,
                   output, log, rankVars, thumbVars>>

\* lines 158, 192-194: fetch_feeds returns and save_articles is called
ReturnArticles ==
    /\ pc = "source"
    /\ i > Len(RSS_FEEDS)
    /\ pc' = "save"
    /\ articles' = all_articles
    /\ UNCHANGED <<world, fs, clock, i, entries, j, count, all_articles, output, log,
                   rankVars, thumbVars>>

\* ------------------------------------------------------------ save_articles

\* lines 162-171: nothing to save, or the sort inside try/except and the cap
SaveSort ==
    /\ pc = "save"
    /\ IF articles = <<>>
       THEN /\ pc' = "done"
            /\ log' = Append(log, "No articles to save!")
            /\ UNCHANGED <<articles, clock>>
       ELSE \E tick \in Ticks([k \in 1..Len(articles) |-> articles[k].pubDate], clock) :
               LET r == SortAndCap(articles, tick, clock) IN
               /\ pc' = "write"
               /\ articles' = r.arts
               /\ clock' = Reading([k \in 1..Len(articles) |-> articles[k].pubDate],
                                   tick, clock, Len(articles))
               /\ log' = IF r.ok THEN log ELSE Append(log, "Warning: Error sorting articles")
    /\ UNCHANGED <<world, fs, i, entries, j, count, all_articles, output,
                   rankVars, thumbVars>>

\* lines 173-177
BuildOutput(arts, now) ==
    [generated_at |-> IsoFormat(now), article_count |-> Len(arts), articles |-> arts]

\* lines 179-180: Path("docs").mkdir(exist_ok=True) raises when docs is a regular
\* file, or is missing and cannot be created
MkdirDocsRaises(f) == f.docs = "file" \/ (f.docs = "absent" /\ f.ro)

\* lines 173-188 and 195: the document is built, docs/ made and the file written;
\* an error of open or json.dump is caught, an error of mkdir is not
SaveWrite ==
    /\ pc = "write"
    /\ \E tick \in (IF clock < MaxClock THEN {0, 1} ELSE {0}) :
          /\ clock' = clock + tick
          /\ IF MkdirDocsRaises(fs)
             THEN /\ pc' = "crashed"
                  /\ UNCHANGED <<fs, output, log>>
             ELSE /\ pc' = "done"
                  /\ fs' = [fs EXCEPT !.docs = "dir"]
                  /\ IF fs.ro
                     THEN /\ log' = Append(log, "Error saving articles")
                          /\ UNCHANGED output
                     ELSE /\ output' = BuildOutput(articles, clock + tick)
                          /\ UNCHANGED log
    /\ UNCHANGED <<world, i, entries, j, count, all_articles, articles,
                   rankVars, thumbVars>>

\* ------------------------------------------------------------ the harnesses

RankIdle == batch = <<>> /\ ranked = <<>> /\ keysSeen = <<>> /\ rpc = 0
ThumbIdle == entry = None /\ thumb = Unset
PipeIdle ==
    /\ pc = "idle" /\ world = <<>> /\ i = 0 /\ entries = <<>> /\ j = 0 /\ count = 0
    /\ all_articles = <<>> /\ articles = <<>> /\ output = None /\ log = <<>>
    /\ fs = [docs |-> "dir", images |-> "absent", files |-> {}, ro |-> FALSE]

\* the date strings handed to the ranking: every format an entry's published or
\* updated field can hold that parse_date tells apart
RankDates ==
    {Date(f, t, 0) : f \in {"isoZ", "ymd"}, t \in 1..MaxT}
    \cup {Date("iso", 1, 0), Date("isoOff", MaxT, 1), Date("rfc822", 1, 1),
          Date("rfc822GMT", 1, 0), Date("garbage", 0, 0)}

\* the article list with the dates ds; the title tells the articles apart
Batch(ds) == [k \in 1..Len(ds) |-> [title |-> Text("title", k), pubDate |-> ds[k]]]

\* the sort-and-cap step of save_articles applied to the batch, then to its own result
RankApply ==
    /\ rpc < 2
    /\ LET arts == IF rpc = 0 THEN batch ELSE ranked[rpc].arts
           ds   == [k \in 1..Len(arts) |-> arts[k].pubDate]
       IN  \E tick \in Ticks(ds, clock) :
              LET r == SortAndCap(arts, tick, clock) IN
              /\ ranked' = Append(ranked, [ok |-> r.ok, arts |-> r.arts, given |-> arts])
              /\ keysSeen' = r.keys
              /\ clock' = Reading(ds, tick, clock, Len(ds))
    /\ rpc' = rpc + 1
    /\ UNCHANGED <<batch, pipeVars, thumbVars>>

\* the entries handed to extract_thumbnail: every combination of the four signals
ThumbEntries ==
    {[PlainEntry(1) EXCEPT !.media_thumbnail = mt, !.media_content = mc,
                           !.links = ln, !.summary = sm] :
        mt \in UNION {[1..n -> {[url |-> None], [url |-> UrlA]}] : n \in 0..2},
        mc \in UNION {[1..n -> {[medium |-> "video", url |-> UrlB],
                                [medium |-> "image", url |-> None],
                                [medium |-> "image", url |-> UrlB]}] : n \in 0..1},
        ln \in UNION {[1..n -> {[type |-> "text/html", href |-> Url("page")],
                                [type |-> "image/png", href |-> None],
                                [type |-> "image/png", href |-> Url("c.png")]}] : n \in 0..1},
        sm \in {[kind |-> "absent", text |-> "", img |-> None],
                [kind |-> "text", text |-> "words", img |-> None],
                [kind |-> "text", text |-> "words", img |-> UrlPic],
                [kind |-> "nonstring", text |-> "", img |-> None]}}

ThumbApply ==
    /\ thumb = Unset
    /\ thumb' = extract_thumbnail(entry)
    /\ UNCHANGED <<entry, clock, pipeVars, rankVars>>

\* ------------------------------------------------------------ specifications

Init ==
    /\ pc = "start"
    /\ \/ world \in BulkWorlds
       \/ \E n \in 1..MaxShort : \E es \in [1..n -> ImageEntries] : world = ImageWorld(es)
    /\ fs \in FileSystems
    /\ clock = 0
    /\ i = 0 /\ entries = <<>> /\ j = 0 /\ count = 0
    /\ all_articles = <<>> /\ articles = <<>>
    /\ output = None
    /\ log = <<>>
    /\ RankIdle /\ ThumbIdle

Next ==
    \/ Start
    \/ FetchSource
    \/ ProcessEntry
    \/ EndSource
    \/ ReturnArticles
    \/ SaveSort
    \/ SaveWrite

Spec == Init /\ [][Next]_vars

InitRank ==
    /\ \E n \in 1..MaxLen : \E ds \in [1..n -> RankDates] : batch = Batch(ds)
    /\ ranked = <<>> /\ keysSeen = <<>> /\ rpc = 0
    /\ clock = 0
    /\ PipeIdle /\ ThumbIdle

SpecRank == InitRank /\ [][RankApply]_vars

InitThumb ==
    /\ entry \in ThumbEntries
    /\ thumb = Unset
    /\ clock = 0
    /\ PipeIdle /\ RankIdle

SpecThumb == InitThumb /\ [][ThumbApply]_vars

\* ------------------------------------------------------------------ claims

\* fetch_feeds has returned
Returned == pc \in {"save", "write", "done", "crashed"}

\* the articles of acc that carry the name of source s
BySource(acc, s) == SelectSeq(acc, LAMBDA a : a.source = RSS_FEEDS[s])

\* processing the entry raises: its summary is not a string
Broken(e) == e.summary.kind = "nonstring"

\* the entries of source s that give an article: the sound ones among the first ten
SoundEntries(s) ==
    IF world[s].raises THEN <<>>
    ELSE SelectSeq(Take(world[s].entries, 10), LAMBDA e : ~Broken(e))

\* what identifies an article: its source and its title
Ident(a) == <<a.source, a.title>>
Idents(acc) == [k \in 1..Len(acc) |-> Ident(acc[k])]

\* the source and title of the articles source s is to give, in feed order
ExpectedOf(s) ==
    [k \in 1..Len(SoundEntries(s)) |->
        <<RSS_FEEDS[s], Get(SoundEntries(s)[k].title, Text("No title", 0))>>]

\* C1: fetch_feeds never raises; when it has returned, a source whose fetch raised
\* has no article in the result, every other source has exactly the articles of
\* its entries, also the sources after a failing one
C1_FailingSourceSkipped ==
    /\ pc = "crashed" => i > Len(RSS_FEEDS)
    /\ Returned =>
          \A s \in 1..Len(RSS_FEEDS) :
             Idents(BySource(all_articles, s)) = ExpectedOf(s)

\* C1 witness: a source failed, a later one gave articles, and fetch_feeds returned
C1_Witness ==
    /\ Returned
    /\ \E s, u \in 1..Len(RSS_FEEDS) :
          /\ s < u
          /\ world[s].raises
          /\ Len(BySource(all_articles, u)) > 0

ExpectedAll == ExpectedOf(1) \o ExpectedOf(2) \o ExpectedOf(3) \o ExpectedOf(4)

IsPrefix(a, b) == Len(a) <= Len(b) /\ a = SubSeq(b, 1, Len(a))

\* C9: at every moment the accumulator is a prefix of, and at the return it is, the
\* articles of the first 10 entries of each source in configured order and feed
\* order, under the configured name, without the entries whose processing raises
C9_SourceThenEntryOrder ==
    /\ IsPrefix(Idents(all_articles), ExpectedAll)
    /\ Returned => Idents(all_articles) = ExpectedAll

\* C9 witness: a feed of more than 10 entries with a raising entry before a sound
\* one among its first 10 has been processed
C9_Witness ==
    /\ Returned
    /\ \E s \in 1..Len(RSS_FEEDS) :
          /\ ~world[s].raises
          /\ Len(world[s].entries) > 10
          /\ \E k, m \in 1..10 :
                k < m /\ Broken(world[s].entries[k]) /\ ~Broken(world[s].entries[m])
          /\ Len(BySource(all_articles, s)) > 0

\* C7: in every document written, article_count is the length of the articles
\* array and that length is at most 30
C7_CountMatchesAndCapped ==
    output # None =>
        /\ output.article_count = Len(output.articles)
        /\ Len(output.articles) <= 30

\* C7 witness: more than 30 articles were fetched and a document of 30 was written
C7_Witness ==
    /\ output # None
    /\ Len(all_articles) > 30
    /\ output.article_count = 30

\* C8: a failure while persisting the output is never fatal: the process does not
\* end on an uncaught error
C8_PersistenceNeverFatal == pc # "crashed"

\* C10: every non-null thumbnail of a collected article is a path ./images/<file>
\* whose file exists under docs/images
C10_ThumbnailFileExists ==
    \A k \in 1..Len(all_articles) :
        all_articles[k].thumbnail # None =>
            /\ all_articles[k].thumbnail.dir = "./images/"
            /\ fs.images = "dir"
            /\ all_articles[k].thumbnail.file \in fs.files

\* the sort key of an article of the batch, by the position its title records
KeyOf(a) == keysSeen[a.title.n]

\* C2: the list emitted is the stable descending sort of the input by
\* parse_date(pubDate), cut to the maximum: the same articles, in non-increasing
\* order of timestamp, equal timestamps in their original order
C2_StableDescendingSort ==
    rpc = 1 =>
        LET out == ranked[1].arts IN
        /\ Len(out) = Len(Take(batch, 30))
        /\ {out[k] : k \in 1..Len(out)} \subseteq {batch[k] : k \in 1..Len(batch)}
        /\ \A k, m \in 1..Len(out) :
              k < m =>
                 /\ Cmp(KeyOf(out[k]), KeyOf(out[m])) = "ge"
                 /\ Cmp(KeyOf(out[m]), KeyOf(out[k])) = "ge" => out[k].title.n < out[m].title.n

\* C3: the sort-and-cap step applied to its own result returns it unchanged (stated
\* for the applications whose sort did not raise)
C3_RankIdempotent ==
    (rpc = 2 /\ ranked[1].ok /\ ranked[2].ok) => ranked[2].arts = ranked[1].arts

\* C4: every timestamp parse_date returns is timezone-aware and UTC-normalised, and
\* any two of them can be compared
C4_KeysAwareUtc ==
    \A k, m \in 1..Len(keysSeen) :
        /\ keysSeen[k].aware
        /\ keysSeen[k].off = 0
        /\ Cmp(keysSeen[k], keysSeen[m]) # "err"

\* C5: when a comparison fails during the sort, the list keeps its input order and
\* its first 30 articles go on
C5_FailedSortKeepsOrder ==
    (rpc >= 1 /\ ~ranked[1].ok) => ranked[1].arts = Take(batch, 30)

\* the URL each of the four signals carries, None if it carries none
ThumbnailSignal(e) ==
    LET t == FirstIdx([k \in 1..Len(e.media_thumbnail) |-> e.media_thumbnail[k].url # None]) IN
    IF t # 0 THEN e.media_thumbnail[t].url ELSE None
ContentSignal(e) ==
    LET c == FirstIdx([k \in 1..Len(e.media_content) |->
                          e.media_content[k].medium = "image" /\ e.media_content[k].url # None]) IN
    IF c # 0 THEN e.media_content[c].url ELSE None
LinkSignal(e) ==
    LET l == FirstIdx([k \in 1..Len(e.links) |->
                          StartsWithImage(e.links[k].type) /\ e.links[k].href # None]) IN
    IF l # 0 THEN e.links[l].href ELSE None
SummarySignal(e) ==
    IF e.summary.kind = "text" THEN e.summary.img ELSE None

\* C6: extract_thumbnail returns the URL of the highest-priority signal that
\* carries one, and None only when none of the four carries one
C6_HighestPrioritySignal ==
    (thumb # Unset /\ thumb # Raise) =>
        thumb = IF ThumbnailSignal(entry) # None THEN ThumbnailSignal(entry)
                ELSE IF ContentSignal(entry) # None THEN ContentSignal(entry)
                ELSE IF LinkSignal(entry) # None THEN LinkSignal(entry)
                ELSE SummarySignal(entry)

====
